---- MODULE Spec2Model ----
(***************************************************************************)
(* vibesrgb: audio capture -> window -> FFT -> bins -> LED frame.          *)
(*                                                                         *)
(* Two specifications:                                                     *)
(*   Spec / LiveSpec  the capture callback and the analysis task of main() *)
(*                    sharing the Mutex<Vec<f32>> window;                  *)
(*   BinSpec          Binning::bin, Binning::log_bins and paint as pure    *)
(*                    functions applied to inputs drawn from bounded sets. *)
(*                                                                         *)
(* f32 arithmetic is modelled bit-exactly (24-bit significand, round to    *)
(* nearest even) wherever the source rounds: max_freq / bins,              *)
(* len / max_freq, start * scalar, 50.0 / 1000.0 * sample_rate.            *)
(*                                                                         *)
(* The model covers the time main() keeps the process alive (its           *)
(* thread::sleep of 600 s); the return of main, which ends both contexts,  *)
(* is not modelled.                                                        *)
(***************************************************************************)
EXTENDS Integers, Sequences, FiniteSets, TLC

(***************************************************************************)
(* Bounds of the model.                                                    *)
(***************************************************************************)
MaxRate == 26      \* BinSpec: sample rates 2..MaxRate (Hz)
MaxBins == 11      \* BinSpec: Linear(1..MaxBins)
MaxBase == 4       \* BinSpec: Logarithmic(2..MaxBase)
MaxLeds == 2       \* BinSpec: LED configurations of 1..MaxLeds slots
MaxBuf == 5        \* Spec: the capture callback is not started beyond this
MaxFrames == 2     \* Spec: hardware frames per capture callback
Channels == 2      \* Spec: channels per hardware frame

(***************************************************************************)
(* Program constants.                                                      *)
(***************************************************************************)
window_size_millis == 50
LinearBins == 10
Threshold == 1

(***************************************************************************)
(* Generic helpers.                                                        *)
(***************************************************************************)
Min(a, b) == IF a <= b THEN a ELSE b

RECURSIVE GCD(_, _)
GCD(a, b) == IF b = 0 THEN a ELSE GCD(b, a % b)

RECURSIVE SumUpTo(_, _)
SumUpTo(s, n) == IF n = 0 THEN 0 ELSE s[n] + SumUpTo(s, n - 1)

SumSeq(s) == SumUpTo(s, Len(s))

\* All sequences over S of length lo..hi.
SeqsOf(S, lo, hi) == UNION {[1..n -> S] : n \in lo..hi}

(***************************************************************************)
(* f32.  A non-negative finite f32 below 2^24 is [m, s] with value         *)
(* m / 2^s, where 2^23 <= m < 2^24 (or m = 0, s = 0).                      *)
(***************************************************************************)
Significand == 2^24

F32Zero == [m |-> 0, s |-> 0]

\* Least s >= from with (num * 2^s) \div den >= 2^23.
RECURSIVE ShiftFor(_, _, _)
ShiftFor(num, den, s) ==
    IF (num * 2^s) \div den >= Significand \div 2 THEN s
    ELSE ShiftFor(num, den, s + 1)

\* The f32 nearest to num / den (ties to even): the result of an f32
\* division whose operands are exactly num and den (or any exact pair of
\* f32 values with that quotient).
f32_div(num, den) ==
    IF num = 0 THEN F32Zero
    ELSE LET g == GCD(num, den)
             n == num \div g
             d == den \div g
             s == ShiftFor(n, d, 0)
             q == (n * 2^s) \div d
             r == (n * 2^s) % d
             up == 2 * r > d \/ (2 * r = d /\ q % 2 = 1)
             m == IF up THEN q + 1 ELSE q
         IN IF m = Significand THEN [m |-> Significand \div 2, s |-> s - 1]
            ELSE [m |-> m, s |-> s]

\* Least t >= from with p \div 2^t < 2^24.
RECURSIVE DropFor(_, _)
DropFor(p, t) == IF p \div 2^t < Significand THEN t ELSE DropFor(p, t + 1)

\* (i as f32) * x in f32, for a small natural i (exactly representable).
f32_mul(i, x) ==
    IF i = 0 \/ x.m = 0 THEN F32Zero
    ELSE LET p == i * x.m
             t == DropFor(p, 0)
             q == p \div 2^t
             r == p % 2^t
             up == t > 0 /\ (2 * r > 2^t \/ (2 * r = 2^t /\ q % 2 = 1))
             m == IF up THEN q + 1 ELSE q
         IN IF m = Significand THEN [m |-> Significand \div 2, s |-> x.s - t - 1]
            ELSE [m |-> m, s |-> x.s - t]

\* x.trunc() as usize
as_usize(x) == IF x.s >= 0 THEN x.m \div 2^(x.s) ELSE x.m * 2^(0 - x.s)

(***************************************************************************)
(* Range<usize> is [start, end]; Complex<f32> with small integer parts is  *)
(* <<re, im>>.                                                             *)
(***************************************************************************)
Range(a, b) == [start |-> a, end |-> b]

contains(range, v) == range.start <= v /\ v < range.end

\* impl Scalable<f32> for Range<usize>: both ends times the scalar, truncated.
scale(range, scalar) ==
    Range(as_usize(f32_mul(range.start, scalar)), as_usize(f32_mul(range.end, scalar)))

(***************************************************************************)
(* calculate_fft.  The forward DFT X[k] = SUM_j x[j] * w^(j*k) with        *)
(* w = exp(-2*pi*i/len), truncated to len / 2 outputs.  For len in         *)
(* {1, 2, 4} every twiddle factor is one of 1, -i, -1, i, so the transform *)
(* of integer samples is exact; the model uses only such lengths.          *)
(***************************************************************************)
\* re and im of x * (-i)^q
TwiddleRe(x, q) == IF q % 4 = 0 THEN x ELSE IF q % 4 = 2 THEN 0 - x ELSE 0

TwiddleIm(x, q) == IF q % 4 = 1 THEN 0 - x ELSE IF q % 4 = 3 THEN x ELSE 0

calculate_fft(data, len) ==
    [k \in 1..(len \div 2) |->
        << SumSeq([j \in 1..len |-> TwiddleRe(data[j], (j - 1) * (k - 1) * (4 \div len))]),
           SumSeq([j \in 1..len |-> TwiddleIm(data[j], (j - 1) * (k - 1) * (4 \div len))]) >>]

(***************************************************************************)
(* Binning.  max_freq = sample_rate / 2 is the exact rational              *)
(* sample_rate / 2 (halving is exact in f32).  A magnitude is kept as its  *)
(* square, norm_sq = re^2 + im^2 of the complex sum: for integer parts,    *)
(* norm > 1.0 iff norm_sq > 1 and norm = 1.0 iff norm_sq = 1.              *)
(***************************************************************************)
Linear(n) == [kind |-> "Linear", n |-> n, ranges |-> <<>>]

Logarithmic(base) == [kind |-> "Logarithmic", n |-> base, ranges |-> <<>>]

Ranges(ranges) == [kind |-> "Ranges", n |-> 0, ranges |-> ranges]

\* Linear arm: (0..bins).map(|bin| (bin..bin + 1).scale(max_freq / bins as f32))
LinearRangesNoCarry(bins, sample_rate) ==
    [bin \in 1..bins |->
        LET r == scale(Range(0, 1), f32_div(sample_rate, 2 * bins))
        IN Range((bin - 1) * r.end, bin * r.end)]

LinearRanges(bins, sample_rate) ==
    [bin \in 1..bins |-> scale(Range(bin - 1, bin), f32_div(sample_rate, 2 * bins))]

\* log_bins.  current_freq is carried in half-Hertz units (cur2 = 2 * current_freq)
\* so that max_freq = sample_rate / 2 stays an integer comparison.  With
\* base_log = base.log(base) = 1.0, next_freq is round(base^(log_base(current) + 1));
\* current is an integer inside the loop and the f32 error of powf is far below
\* 0.5 at these magnitudes, so round() yields exactly current * base.
RECURSIVE log_loop_unclamped(_, _, _, _)
log_loop_unclamped(cur2, sample_rate, base, bins) ==
    IF cur2 < sample_rate
    THEN LET next2 == cur2 * base
         IN log_loop_unclamped(next2, sample_rate, base,
                               Append(bins, Range(cur2 \div 2, next2 \div 2)))
    ELSE bins

RECURSIVE log_loop(_, _, _, _)
log_loop(cur2, sample_rate, base, bins) ==
    IF cur2 < sample_rate
    THEN LET next2 == Min(cur2 * base, sample_rate)
         IN log_loop(next2, sample_rate, base,
                     Append(bins, Range(cur2 \div 2, next2 \div 2)))
    ELSE bins

log_bins_unclamped(sample_rate, base) == log_loop_unclamped(2, sample_rate, base, <<>>)

log_bins(sample_rate, base) == log_loop(2, sample_rate, base, <<>>)

\* The Hertz ranges of a strategy (the per-variant range generation of bin).
HertzRanges(strategy, sample_rate) ==
    CASE strategy.kind = "Linear" -> LinearRanges(strategy.n, sample_rate)
      [] strategy.kind = "Logarithmic" -> log_bins(sample_rate, strategy.n)
      [] OTHER -> strategy.ranges

\* fft[scaled_range] panics unless start <= end <= len.
IndexOk(r, len) == r.start <= r.end /\ r.end <= len

\* fft[scaled_range].iter().sum::<Complex<f32>>().norm(), squared
NormSqOfSum(fft, r) ==
    LET re == SumSeq([i \in 1..(r.end - r.start) |-> fft[r.start + i][1]])
        im == SumSeq([i \in 1..(r.end - r.start) |-> fft[r.start + i][2]])
    IN re * re + im * im

\* range.scale(scale) for every range, with scale = len as f32 / max_freq
ScaledRanges(ranges, len, sample_rate) ==
    [i \in 1..Len(ranges) |-> scale(ranges[i], f32_div(2 * len, sample_rate))]

\* The .map(|range| ..) of every arm of bin: [panic |-> TRUE] when a slice
\* index is out of range, else the (Hertz range, magnitude) pairs in order.
aggregate(ranges, scaled, fft) ==
    IF \E i \in 1..Len(ranges) : ~IndexOk(scaled[i], Len(fft))
    THEN [panic |-> TRUE, bins |-> <<>>]
    ELSE [panic |-> FALSE,
          bins |-> [i \in 1..Len(ranges) |->
                      [range |-> ranges[i], norm_sq |-> NormSqOfSum(fft, scaled[i])]]]

\* Binning::bin
bin(strategy, fft, sample_rate) ==
    aggregate(HertzRanges(strategy, sample_rate),
              ScaledRanges(HertzRanges(strategy, sample_rate), Len(fft), sample_rate),
              fft)

(***************************************************************************)
(* paint.  An LedSlot is <<>> (None) or <<k>> (Some((x, y)) with           *)
(* x = k / XDen, a dyadic fraction that f32 holds exactly; y is not read). *)
(***************************************************************************)
XDen == 2^4

Red == <<255, 0, 0>>

Off == <<0, 0, 0>>

\* (*x * sample_rate / 2.0) as usize
target_freq(k, sample_rate) == (k * sample_rate) \div (2 * XDen)

\* if bin.1 > 1.0 { red } else { black }
ColorOfInclusive(norm_sq) == IF norm_sq >= Threshold * Threshold THEN Red ELSE Off

ColorOf(norm_sq) == IF norm_sq > Threshold * Threshold THEN Red ELSE Off

Covered(bins, f) == \E i \in 1..Len(bins) : contains(bins[i].range, f)

\* bins.iter().find(..): the first bin whose range contains f
FindBin(bins, f) ==
    bins[CHOOSE i \in 1..Len(bins) :
            /\ contains(bins[i].range, f)
            /\ \A j \in 1..(i - 1) : ~contains(bins[j].range, f)]

\* paint: [panic |-> TRUE] when find(..).unwrap() meets None, else the frame.
paint(led_cfg, bins, sample_rate) ==
    IF \E i \in 1..Len(led_cfg) :
          led_cfg[i] # <<>> /\ ~Covered(bins, target_freq(led_cfg[i][1], sample_rate))
    THEN [panic |-> TRUE, colors |-> <<>>]
    ELSE [panic |-> FALSE,
          colors |-> [i \in 1..Len(led_cfg) |->
                        IF led_cfg[i] = <<>> THEN Off
                        ELSE ColorOf(FindBin(bins, target_freq(led_cfg[i][1], sample_rate)).norm_sq)]]

(***************************************************************************)
(* State.                                                                  *)
(***************************************************************************)
VARIABLES
    sample_rate,   \* config.sample_rate(), Hz
    leds,          \* the LED configuration: a sequence of LedSlots
    \* BinSpec: one application of bin, then of paint
    stage,         \* "start", "binned", "painted"
    strategy,      \* the Binning value bin was called on
    spectrum,      \* the fft argument of bin
    binned,        \* the result of bin
    prev_binned,   \* the result of bin for the next smaller logarithm base, or <<>>
    painted,       \* the result of paint
    \* Spec: main()
    window_size_samples,  \* main's local, computed once from sample_rate
    layout,        \* the Hertz and spectrum-index ranges Binning::Linear(10).bin
                   \*   derives from sample_rate and fft.len() on every call: they
                   \*   are the same on every call, and are kept from the first
    window,        \* the Vec<f32> behind the Mutex
    lock,          \* who holds the Mutex: "free", "cpal" or "proc"
    poisoned,      \* a thread panicked while holding the Mutex
    cb_pc,         \* capture callback: "idle", "lock", "extend", "panicked"
    mono,          \* the callback's local mono
    pc,            \* analysis task: "tick", "check", "fft", "bin", "clear",
                   \*   "paint", "send", "sleep", "panicked"
    panic,         \* what the analysis task panicked in, or "none"
    slice,         \* the task's local slice (a borrow of the window's tail)
    fft,           \* the task's local fft
    bins,          \* the task's local bins
    colors,        \* the block's value: <<>> (None) or <<frame>> (Some)
    sink,          \* the frames the lighting service has shown: <<>> or <<last>>
    \* history of the run, read by the properties only
    appended,      \* the samples appended since the last window.clear()
    tick_window,   \* <<the window this tick's drain produced>>, or <<>>
    handed         \* the frames given to update_leds in this tick

bin_vars == <<stage, strategy, spectrum, binned, prev_binned, painted>>

pipe_vars == <<window, lock, poisoned, cb_pc, mono, pc, panic, slice, fft, bins,
               colors, sink, appended, tick_window, handed>>

setup_vars == <<sample_rate, leds, window_size_samples, layout>>

vars == <<setup_vars, bin_vars, pipe_vars>>

\* The pipeline before main() has started anything.
PipeIdle ==
    /\ window = <<>>
    /\ lock = "free"
    /\ poisoned = FALSE
    /\ cb_pc = "idle"
    /\ mono = <<>>
    /\ pc = "tick"
    /\ panic = "none"
    /\ slice = <<>>
    /\ fft = <<>>
    /\ bins = <<>>
    /\ colors = <<>>
    /\ sink = <<>>
    /\ appended = <<>>
    /\ tick_window = <<>>
    /\ handed = <<>>

(***************************************************************************)
(* BinSpec: bin and paint applied to bounded inputs.                       *)
(***************************************************************************)
ComplexVals == {<<1, 0>>, <<-1, 0>>, <<1, 1>>}

Spectra == SeqsOf(ComplexVals, 1, 2)

\* Binning::Ranges inputs: overlapping ranges, and a range beyond max_freq.
CustomRanges == { <<Range(0, 4), Range(2, 5)>>, <<Range(0, 4), Range(4, 100)>> }

Strategies ==
    {Linear(n) : n \in 1..MaxBins}
        \cup {Logarithmic(b) : b \in 2..MaxBase}
        \cup {Ranges(r) : r \in CustomRanges}

\* x = 0, 7/16 and 1.0, or unplaced
LedSlots == {<<>>, <<0>>, <<7>>, <<XDen>>}

LedConfigs == SeqsOf(LedSlots, 1, MaxLeds)

NoResult == [panic |-> FALSE, bins |-> <<>>]

NoFrame == [panic |-> FALSE, colors |-> <<>>]

BinInit ==
    /\ sample_rate \in 2..MaxRate
    /\ leds = <<>>
    /\ window_size_samples = 0
    /\ layout = <<>>
    /\ stage = "start"
    /\ strategy = Linear(1)
    /\ spectrum = <<>>
    /\ binned = NoResult
    /\ prev_binned = <<>>
    /\ painted = NoFrame
    /\ PipeIdle

\* bins = strategy.bin(&fft, sample_rate)
Bin(s, f) ==
    /\ stage = "start"
    /\ stage' = "binned"
    /\ strategy' = s
    /\ spectrum' = f
    /\ binned' = bin(s, f, sample_rate)
    /\ UNCHANGED <<setup_vars, prev_binned, painted, pipe_vars>>

\* the same spectrum binned again with the next larger logarithm base
BinNextBase ==
    /\ stage = "binned"
    /\ strategy.kind = "Logarithmic"
    /\ strategy.n < MaxBase
    /\ prev_binned = <<>>
    /\ strategy' = Logarithmic(strategy.n + 1)
    /\ prev_binned' = <<binned>>
    /\ binned' = bin(strategy', spectrum, sample_rate)
    /\ UNCHANGED <<setup_vars, stage, spectrum, painted, pipe_vars>>

\* colors = paint(&leds, &bins, sample_rate)
Paint(l) ==
    /\ stage = "binned"
    /\ ~binned.panic
    /\ stage' = "painted"
    /\ leds' = l
    /\ painted' = paint(l, binned.bins, sample_rate)
    /\ UNCHANGED <<sample_rate, window_size_samples, layout, strategy, spectrum, binned, prev_binned, pipe_vars>>

BinNext ==
    \/ \E s \in Strategies, f \in Spectra : Bin(s, f)
    \/ BinNextBase
    \/ \E l \in LedConfigs : Paint(l)

BinSpec == BinInit /\ [][BinNext]_vars

(***************************************************************************)
(* Properties of bin and paint (BinSpec).                                  *)
(***************************************************************************)
HzRanges == [i \in 1..Len(binned.bins) |-> binned.bins[i].range]

Contiguous(rs) == \A i \in 1..(Len(rs) - 1) : rs[i].end = rs[i + 1].start

Ordered(rs) == \A i \in 1..Len(rs) : rs[i].start <= rs[i].end

Width(r) == r.end - r.start

BinnedWith(kind) ==
    stage \in {"binned", "painted"} /\ strategy.kind = kind /\ ~binned.panic

\* C5 (as claimed): with bins from the Linear or the Logarithmic strategy the
\* bin sequence is contiguous and covers [0, max_freq), and painting any LED
\* configuration with x in [0, 1] never fails its bin lookup.
C5_LookupNeverFails ==
    (stage = "painted" /\ strategy.kind \in {"Linear", "Logarithmic"})
        => /\ Contiguous(HzRanges)
           /\ ~painted.panic

CountNonIncreasing ==
    prev_binned # <<>> => Len(binned.bins) <= Len(prev_binned[1].bins)

PaintedOk == stage = "painted" /\ ~painted.panic

\* C8: whenever painting completes, the frame has the length and order of the
\* LED configuration, every unplaced slot is off, and every placed slot is red
\* exactly when the first bin containing its mapped frequency has a magnitude
\* strictly above the threshold (equal to it: off).
C8_FramePolicy ==
    PaintedOk =>
        /\ Len(painted.colors) = Len(leds)
        /\ \A k \in 1..Len(leds) :
              IF leds[k] = <<>>
              THEN painted.colors[k] = Off
              ELSE \E i \in 1..Len(binned.bins) :
                      /\ contains(binned.bins[i].range, target_freq(leds[k][1], sample_rate))
                      /\ \A j \in 1..(i - 1) :
                            ~contains(binned.bins[j].range, target_freq(leds[k][1], sample_rate))
                      /\ painted.colors[k] =
                            (IF binned.bins[i].norm_sq > Threshold * Threshold THEN Red ELSE Off)

\* C8 witness: a completed frame over custom overlapping ranges with an unplaced
\* slot first and then a placed slot whose frequency lies in two bins, the first
\* of magnitude exactly 1.0 (off) and the second above it.
C8_Witness ==
    /\ PaintedOk
    /\ Len(leds) = 2
    /\ leds[1] = <<>>
    /\ leds[2] # <<>>
    /\ \E i, j \in 1..Len(binned.bins) :
          /\ i < j
          /\ contains(binned.bins[i].range, target_freq(leds[2][1], sample_rate))
          /\ contains(binned.bins[j].range, target_freq(leds[2][1], sample_rate))
          /\ binned.bins[i].norm_sq = Threshold * Threshold
          /\ binned.bins[j].norm_sq > Threshold * Threshold
    /\ painted.colors = <<Off, Off>>

(***************************************************************************)
(* Spec: main().  The capture callback (cpal's audio thread) and the       *)
(* analysis task (tokio::spawn) share the window behind a Mutex.           *)
(***************************************************************************)
\* average: sum / count, 0.0 for an empty slice.  The capture data of the
\* model have channel sums divisible by the channel count, so the f32 quotient
\* is the exact integer quotient.
average(s) == IF Len(s) = 0 THEN 0 ELSE SumSeq(s) \div Len(s)

\* data.chunks(channels): consecutive chunks of `channels` values, the last
\* one shorter when the length is no multiple.
chunks(data, channels) ==
    [i \in 1..((Len(data) + channels - 1) \div channels) |->
        SubSeq(data, (i - 1) * channels + 1, Min(i * channels, Len(data)))]

\* Sample rates whose window (2 and 4 samples) the exact DFT covers.
PipelineRates == {40, 80}

\* (window_size_millis / 1000.0 * sample_rate) as usize
window_size_of(rate) == as_usize(f32_mul(rate, f32_div(window_size_millis, 1000)))

\* The ranges of Binning::Linear(10).bin for a spectrum of half the window length
\* (calculate_fft truncates to len / 2).
LinearLayout(rate, len) ==
    [ranges |-> LinearRanges(LinearBins, rate),
     scaled |-> ScaledRanges(LinearRanges(LinearBins, rate), len \div 2, rate)]

\* &window[window.len() - window_size_samples..]
HeadSlice(w, n) == SubSeq(w, 1, n)

TailSlice(w, n) == SubSeq(w, Len(w) - n + 1, Len(w))

\* One hardware frame: silence, or one channel at amplitude `Channels`.
HardwareFrames ==
    { [c \in 1..Channels |-> 0], [c \in 1..Channels |-> IF c = Channels THEN Channels ELSE 0] }

RECURSIVE Flatten(_)
Flatten(ss) == IF ss = <<>> THEN <<>> ELSE Head(ss) \o Flatten(Tail(ss))

\* The interleaved buffers cpal hands to the callback.
CaptureData == {Flatten(fs) : fs \in SeqsOf(HardwareFrames, 1, MaxFrames)}

\* LED configurations: placed at x = 7/16 and 15/16, unplaced, and at x = 1.0.
PipelineLeds == { << <<>>, <<15>> >>, << <<15>>, <<7>> >>, << <<XDen>>, <<>> >> }

Init ==
    /\ sample_rate \in PipelineRates
    /\ leds \in PipelineLeds
    /\ window_size_samples = window_size_of(sample_rate)
    /\ layout = LinearLayout(sample_rate, window_size_samples)
    /\ stage = "start"
    /\ strategy = Linear(LinearBins)
    /\ spectrum = <<>>
    /\ binned = NoResult
    /\ prev_binned = <<>>
    /\ painted = NoFrame
    /\ PipeIdle

\* ---- capture callback (main.rs 170-177) ----

\* let mono = data.chunks(channels).map(average).collect();
\* cpal starts no callback once the buffer of the model is full.
CbStart(data) ==
    /\ cb_pc = "idle"
    /\ Len(window) + Len(chunks(data, Channels)) <= MaxBuf
    /\ mono' = [i \in 1..Len(chunks(data, Channels)) |-> average(chunks(data, Channels)[i])]
    /\ cb_pc' = "lock"
    /\ UNCHANGED <<setup_vars, bin_vars, window, lock, poisoned, pc, panic, slice,
                   fft, bins, colors, sink, appended, tick_window, handed>>

\* window_cpal.lock().unwrap(): blocks while the task holds the Mutex, panics
\* when it is poisoned.
CbLock ==
    /\ cb_pc = "lock"
    /\ lock = "free"
    /\ IF poisoned
       THEN cb_pc' = "panicked" /\ mono' = <<>> /\ lock' = lock
       ELSE cb_pc' = "extend" /\ mono' = mono /\ lock' = "cpal"
    /\ UNCHANGED <<setup_vars, bin_vars, window, poisoned, pc, panic, slice,
                   fft, bins, colors, sink, appended, tick_window, handed>>

\* window.extend(mono); the guard is dropped at the end of the closure.
CbExtend ==
    /\ cb_pc = "extend"
    /\ lock = "cpal"
    /\ window' = window \o mono
    /\ appended' = appended \o mono
    /\ lock' = "free"
    /\ cb_pc' = "idle"
    /\ mono' = <<>>
    /\ UNCHANGED <<setup_vars, bin_vars, poisoned, pc, panic, slice,
                   fft, bins, colors, sink, tick_window, handed>>

\* ---- analysis task (main.rs 185-203) ----

\* let mut window = window_proc.lock().unwrap();
ProcLock ==
    /\ pc = "tick"
    /\ lock = "free"
    /\ IF poisoned
       THEN pc' = "panicked" /\ panic' = "lock" /\ lock' = lock
       ELSE pc' = "check" /\ panic' = panic /\ lock' = "proc"
    /\ tick_window' = <<>>
    /\ handed' = <<>>
    /\ UNCHANGED <<setup_vars, bin_vars, window, poisoned, cb_pc, mono, slice,
                   fft, bins, colors, sink, appended>>

\* if window.len() >= window_size_samples { let slice = ..; } else { None }
\* None ends the block: the guard is dropped and the task goes to sleep.
ProcCheck ==
    /\ pc = "check"
    /\ IF Len(window) >= window_size_samples
       THEN /\ slice' = TailSlice(window, window_size_samples)
            /\ tick_window' = <<[i \in 1..window_size_samples |->
                                   window[Len(window) - window_size_samples + i]]>>
            /\ pc' = "fft"
            /\ UNCHANGED <<lock, colors>>
       ELSE /\ colors' = <<>>
            /\ lock' = "free"
            /\ pc' = "sleep"
            /\ UNCHANGED <<slice, tick_window>>
    /\ UNCHANGED <<setup_vars, bin_vars, window, poisoned, cb_pc, mono, panic,
                   fft, bins, sink, appended, handed>>

\* let fft = calculate_fft(slice, window_size_samples);
ProcFft ==
    /\ pc = "fft"
    /\ fft' = calculate_fft(slice, window_size_samples)
    /\ pc' = "bin"
    /\ UNCHANGED <<setup_vars, bin_vars, window, lock, poisoned, cb_pc, mono, panic,
                   slice, bins, colors, sink, appended, tick_window, handed>>

\* let bins = Binning::Linear(10).bin(&fft, sample_rate);
\* a panic unwinds through the guard: the Mutex is released and poisoned.
ProcBin ==
    /\ pc = "bin"
    /\ LET r == aggregate(layout.ranges, layout.scaled, fft)
       IN IF r.panic
          THEN /\ pc' = "panicked" /\ panic' = "bin"
               /\ lock' = "free" /\ poisoned' = TRUE
               /\ bins' = bins
          ELSE /\ pc' = "clear" /\ panic' = panic
               /\ lock' = lock /\ poisoned' = poisoned
               /\ bins' = r.bins
    /\ UNCHANGED <<setup_vars, bin_vars, window, cb_pc, mono,
                   slice, fft, colors, sink, appended, tick_window, handed>>

\* window.clear();
ProcClear ==
    /\ pc = "clear"
    /\ window' = <<>>
    /\ appended' = <<>>
    /\ pc' = "paint"
    /\ UNCHANGED <<setup_vars, bin_vars, lock, poisoned, cb_pc, mono, panic,
                   slice, fft, bins, colors, sink, tick_window, handed>>

\* Some(paint(&leds, &bins, sample_rate)); the block ends, the guard is
\* dropped, and update_leds(controller_id, colors) is called.  A panic in
\* paint unwinds through the guard: the Mutex is released and poisoned.
ProcPaintKeepLock ==
    /\ pc = "paint"
    /\ LET r == paint(leds, bins, sample_rate)
       IN IF r.panic
          THEN /\ pc' = "panicked" /\ panic' = "paint"
               /\ lock' = "free" /\ poisoned' = TRUE
               /\ UNCHANGED <<colors, handed>>
          ELSE /\ pc' = "send" /\ panic' = panic
               /\ lock' = lock /\ poisoned' = poisoned
               /\ colors' = <<r.colors>>
               /\ handed' = Append(handed, r.colors)
    /\ UNCHANGED <<setup_vars, bin_vars, window, cb_pc, mono,
                   slice, fft, bins, sink, appended, tick_window>>

ProcPaint ==
    /\ pc = "paint"
    /\ LET r == paint(leds, bins, sample_rate)
       IN IF r.panic
          THEN /\ pc' = "panicked" /\ panic' = "paint"
               /\ lock' = "free" /\ poisoned' = TRUE
               /\ UNCHANGED <<colors, handed>>
          ELSE /\ pc' = "send" /\ panic' = panic
               /\ lock' = "free" /\ poisoned' = poisoned
               /\ colors' = <<r.colors>>
               /\ handed' = Append(handed, r.colors)
    /\ UNCHANGED <<setup_vars, bin_vars, window, cb_pc, mono,
                   slice, fft, bins, sink, appended, tick_window>>

\* client.update_leds(controller_id, colors).await returns Ok(())
ProcSendOk ==
    /\ pc = "send"
    /\ sink' = colors
    /\ pc' = "sleep"
    /\ UNCHANGED <<setup_vars, bin_vars, window, lock, poisoned, cb_pc, mono, panic,
                   slice, fft, bins, colors, appended, tick_window, handed>>

\* client.update_leds(controller_id, colors).await returns Err: unwrap() panics
\* and the spawned task ends.
ProcSendErr ==
    /\ pc = "send"
    /\ pc' = "panicked"
    /\ panic' = "update_leds"
    /\ UNCHANGED <<setup_vars, bin_vars, window, lock, poisoned, cb_pc, mono,
                   slice, fft, bins, colors, sink, appended, tick_window, handed>>

\* tokio::time::sleep(window_size_millis).await; then the next iteration.
ProcSleep ==
    /\ pc = "sleep"
    /\ pc' = "tick"
    /\ slice' = <<>>
    /\ fft' = <<>>
    /\ bins' = <<>>
    /\ colors' = <<>>
    /\ UNCHANGED <<setup_vars, bin_vars, window, lock, poisoned, cb_pc, mono, panic,
                   sink, appended, tick_window, handed>>

CbNext == (\E data \in CaptureData : CbStart(data)) \/ CbLock \/ CbExtend

ProcNext ==
    \/ ProcLock
    \/ ProcCheck
    \/ ProcFft
    \/ ProcBin
    \/ ProcClear
    \/ ProcPaint
    \/ ProcSendOk
    \/ ProcSendErr
    \/ ProcSleep

Next == CbNext \/ ProcNext

Spec == Init /\ [][Next]_vars

\* The audio thread and the tokio runtime each keep running what they can run.
LiveSpec == Spec /\ WF_vars(CbNext) /\ WF_vars(ProcNext)

(***************************************************************************)
(* Properties of the pipeline (Spec, LiveSpec).                            *)
(***************************************************************************)
\* The last n samples of w, in capture order.
LastSamples(w, n) == [i \in 1..n |-> w[Len(w) - n + i]]

InStage == pc \in {"fft", "bin", "paint"}

\* C1: the drain step.  With at least window_size_samples samples in the
\* buffer the window analysed is exactly the last window_size_samples samples
\* in capture order and the buffer is empty when the drain ends; with fewer,
\* no window is produced and the buffer is left as it was.
C1_DrainStep ==
    /\ [](pc \in {"fft", "bin", "clear"} =>
            /\ Len(window) >= window_size_samples
            /\ slice = LastSamples(window, window_size_samples)
            /\ tick_window = <<slice>>)
    /\ [](pc \in {"bin", "clear", "paint"} =>
            fft = calculate_fft(tick_window[1], window_size_samples))
    /\ [](pc = "paint" => window = <<>>)
    /\ [][(pc = "check" /\ Len(window) >= window_size_samples /\ pc' # "check") =>
            /\ pc' = "fft"
            /\ window' = window
            /\ slice' = LastSamples(window, window_size_samples)]_vars
    /\ [][(pc = "paint" /\ pc' # "paint") => (window' = <<>> /\ lock' = "free")]_vars
    /\ [][(pc = "check" /\ Len(window) < window_size_samples) =>
            /\ window' = window
            /\ pc' # "check" => (pc' = "sleep" /\ colors' = <<>> /\ tick_window' = <<>>
                                    /\ slice' = slice /\ lock' = "free")]_vars

\* C1 witness: a drain that took its window out of a longer buffer, whose head
\* differs from its tail, and has cleared the buffer.
C1_Witness ==
    /\ pc = "paint"
    /\ window = <<>>
    /\ tick_window # <<>>
    /\ \E i, j \in 1..Len(tick_window[1]) : tick_window[1][i] # tick_window[1][j]

\* C2 (as claimed): the Mutex is held only for append and drain, never across
\* the transform, the binning or the painting, so the capture callback never
\* waits for it while the analysis task is in one of these stages.
C2_LockNotHeldAcrossStages ==
    /\ InStage => lock # "proc"
    /\ ~(InStage /\ cb_pc = "lock" /\ lock = "proc")

\* C3 (as claimed): the buffer always equals the samples appended since the
\* last drain that produced a window, and every callback that has mixed its
\* samples appends them all to the end of the buffer and changes nothing else.
C3_AppendNeverDrops ==
    /\ [](window = appended)
    /\ [][(cb_pc = "lock" /\ cb_pc' # "lock") => cb_pc' = "extend"]_vars
    /\ [][(cb_pc = "extend" /\ cb_pc' # "extend") =>
            /\ window' = window \o mono
            /\ UNCHANGED <<pc, slice, fft, bins, colors, sink, setup_vars>>]_vars

\* The frame the pipeline computes from window w.
FrameOf(w) ==
    paint(leds,
          bin(Linear(LinearBins), calculate_fft(w, window_size_samples), sample_rate).bins,
          sample_rate).colors

\* C4 (as claimed): in every tick a frame is handed to the sink if and only if
\* the tick's drain produced a window, at most one per tick, computed from that
\* window; and no drain starts while a delivery is pending.
C4_FramePerWindow ==
    /\ pc \in {"sleep", "panicked"} => ((handed # <<>>) <=> (tick_window # <<>>))
    /\ Len(handed) <= 1
    /\ handed # <<>> => (tick_window # <<>> /\ handed[1] = FrameOf(tick_window[1]))
    /\ pc = "send" => lock # "proc"

\* C9 (as claimed): a failed delivery does not end the scheduler loop; the
\* task goes on to its next tick.
C9_DeliveryFailureTolerated == ~(pc = "panicked" /\ panic = "update_leds")

\* Both contexts are waiting for a Mutex that neither of them holds.
BothBlocked == cb_pc = "lock" /\ pc = "tick" /\ lock # "free"

====
